---- MODULE Spec2Model ----
(***************************************************************************)
(* create-gitlab-webhooks: one run of create-webhooks.ts against a GitLab  *)
(* server.  The program reads a manifest of repository paths, expands      *)
(* wildcard group entries, and for every repository deletes the webhook    *)
(* whose url is the configured destination and creates a fresh one.        *)
(*                                                                         *)
(* Strings the program splits and joins (manifest content, lines, project  *)
(* paths, environment values) are sequences of one-character strings; the *)
(* urls it only compares are TLA+ strings.                                 *)
(*                                                                         *)
(* Every API call is two steps: the program issues the request and         *)
(* suspends at its await; the server answers (applying the request, or     *)
(* failing without effect); the program resumes in the After... action.    *)
(***************************************************************************)
EXTENDS Integers, Sequences, FiniteSets, TLC

(* ------------------------------ bounds --------------------------------- *)
MaxLines == 2
MaxHooks == 2
MaxPages == 2

(* ------------------------- program constants --------------------------- *)
perPage == 100

(* ------------------------------ text ----------------------------------- *)
NL == "\n"

\* The white space and line terminators that String.prototype.trim strips:
\* tab, line feed, vertical tab, form feed, carriage return, space, U+00A0,
\* U+1680, U+FEFF, and the characters named here by their code points,
\* which a module cannot hold: U+2000 to U+200A, U+2028, U+2029, U+202F,
\* U+205F, U+3000.
Whitespace ==
  {" ", "\t", "\r", NL, "\f", "", " ", " ", "﻿"}
    \cup {"U+2000", "U+2001", "U+2002", "U+2003", "U+2004", "U+2005",
          "U+2006", "U+2007", "U+2008", "U+2009", "U+200A", "U+2028",
          "U+2029", "U+202F", "U+205F", "U+3000"}

Min(a, b) == IF a < b THEN a ELSE b

\* String.prototype.split(sep) for a one-character separator: the segments
\* between separators, [""] for the empty string.
RECURSIVE SplitFrom(_, _, _, _)
SplitFrom(s, sep, i, acc) ==
  IF i > Len(s) THEN <<acc>>
  ELSE IF s[i] = sep THEN <<acc>> \o SplitFrom(s, sep, i + 1, <<>>)
  ELSE SplitFrom(s, sep, i + 1, Append(acc, s[i]))

\* A split that forgets the segment after the last separator.
SplitDropLast(s, sep) ==
  LET all == SplitFrom(s, sep, 1, <<>>)
  IN IF Len(all) > 1 THEN SubSeq(all, 1, Len(all) - 1) ELSE all

Split(s, sep) == SplitFrom(s, sep, 1, <<>>)

\* Array.prototype.join(sep): "" for the empty array.
RECURSIVE Join(_, _)
Join(parts, sep) ==
  IF Len(parts) = 0 THEN <<>>
  ELSE IF Len(parts) = 1 THEN parts[1]
  ELSE parts[1] \o <<sep>> \o Join(Tail(parts), sep)

\* line.trim() is truthy: the line has a character that is not whitespace.
TrimTruthy(line) == \E i \in 1..Len(line) : line[i] \notin Whitespace

\* Array.prototype.filter(line => line.trim())
RECURSIVE FilterTrimTruthy(_)
FilterTrimTruthy(seq) ==
  IF Len(seq) = 0 THEN <<>>
  ELSE (IF TrimTruthy(seq[1]) THEN <<seq[1]>> ELSE <<>>)
       \o FilterTrimTruthy(Tail(seq))

\* A manifest reader that keeps the blank lines.
ManifestLinesKeepBlank(content) == Split(content, NL)

\* content.split('\n').filter(line => line.trim())
ManifestLines(content) == FilterTrimTruthy(Split(content, NL))

\* parts = s.split('/'); repoName = parts.pop(); groupPath = parts.join('/')
ParsePathFirstSegment(s) ==
  LET parts == Split(s, "/")
  IN [groupPath |-> Join(Tail(parts), "/"), repoName |-> parts[1]]

ParsePath(s) ==
  LET parts == Split(s, "/")
  IN [groupPath |-> Join(SubSeq(parts, 1, Len(parts) - 1), "/"),
      repoName  |-> parts[Len(parts)]]

\* `${groupPath}/${repoName}`
ProjectPath(ref) == ref.groupPath \o <<"/">> \o ref.repoName

Star == <<"*">>

(* ------------------------- the configuration --------------------------- *)
\* process.env.X: a variable that is not set gives undefined, one that is
\* set gives its text (a sequence of characters).
Undefined == [set |-> FALSE, text |-> <<>>]
Env(text) == [set |-> TRUE, text |-> text]

\* !x of a string or undefined: undefined and the empty string are falsy.
Falsy(v) == ~v.set \/ v.text = <<>>

\* A sequence of characters as one string value.
RECURSIVE Str(_)
Str(s) == IF Len(s) = 0 THEN "" ELSE s[1] \o Str(Tail(s))

\* The value of a variable that holds process.env.X, as a string.
Text(v) == Str(v.text)

Token == <<"g","l","p","a","t","-","t","o","k","e","n">>
UndefinedText == <<"u","n","d","e","f","i","n","e","d">>
NoScheme ==
  <<"h","o","o","k","s",".","e","x","a","m","p","l","e",".","c","o","m",
    "/","i","n">>
DestChars == <<"h","t","t","p","s",":","/","/">> \o NoScheme
Dest == "https://hooks.example.com/in"
DestUpper == "https://hooks.example.com/IN"
DestSlash == "https://hooks.example.com/in/"

(* ------------------------------ new URL(x) ----------------------------- *)
\* The URL parser of new URL(x), without a base url, as far as it decides
\* between returning and throwing: the scheme, the authority, the host
\* (domain, IPv4, IPv6, opaque host) and the port.
AsciiLower ==
  <<"a","b","c","d","e","f","g","h","i","j","k","l","m",
    "n","o","p","q","r","s","t","u","v","w","x","y","z">>
AsciiUpper ==
  <<"A","B","C","D","E","F","G","H","I","J","K","L","M",
    "N","O","P","Q","R","S","T","U","V","W","X","Y","Z">>
AsciiDigit == <<"0","1","2","3","4","5","6","7","8","9">>
HexLower == AsciiDigit \o <<"a","b","c","d","e","f">>
\* The characters of codes 20 to 7E, in the order of their codes; the grave
\* accent, which a module cannot hold, is named by its code point.
AsciiPrintable ==
  <<" ","!","\"","#","$","%","&","'","(",")","*","+",",","-",".","/">>
    \o AsciiDigit \o <<":",";","<","=",">","?","@">>
    \o AsciiUpper \o <<"[","\\","]","^","_","U+0060">>
    \o AsciiLower \o <<"{","|","}","~">>

Range(f) == {f[i] : i \in DOMAIN f}
IndexOf(seq, c) == CHOOSE i \in 1..Len(seq) : seq[i] = c
IsAlpha(c) == c \in Range(AsciiLower) \cup Range(AsciiUpper)
IsDigit(c) == c \in Range(AsciiDigit)
ToLowerChar(c) ==
  IF c \in Range(AsciiUpper) THEN AsciiLower[IndexOf(AsciiUpper, c)] ELSE c
ToLower(s) == [i \in 1..Len(s) |-> ToLowerChar(s[i])]
IsHex(c) == ToLowerChar(c) \in Range(HexLower)
HexChars == {c \in Range(AsciiPrintable) : IsHex(c)}
HexValue(c) == IndexOf(HexLower, ToLowerChar(c)) - 1

\* The first position of s, from i on, whose character is in `set`;
\* Len(s) + 1 when there is none.
RECURSIVE FirstIn(_, _, _)
FirstIn(s, set, i) ==
  IF i > Len(s) THEN Len(s) + 1
  ELSE IF s[i] \in set THEN i
  ELSE FirstIn(s, set, i + 1)

\* The first position of s, from i on, whose character is not in `set`.
RECURSIVE FirstNotIn(_, _, _)
FirstNotIn(s, set, i) ==
  IF i > Len(s) THEN Len(s) + 1
  ELSE IF s[i] \notin set THEN i
  ELSE FirstNotIn(s, set, i + 1)

\* The last position of s, up to i, whose character is not in `set`; 0 when
\* there is none.
RECURSIVE LastNotIn(_, _, _)
LastNotIn(s, set, i) ==
  IF i < 1 THEN 0
  ELSE IF s[i] \notin set THEN i
  ELSE LastNotIn(s, set, i - 1)

\* The last position of c in s, 0 when there is none.
RECURSIVE LastIndexOf(_, _, _)
LastIndexOf(s, c, i) ==
  IF i < 1 THEN 0
  ELSE IF s[i] = c THEN i
  ELSE LastIndexOf(s, c, i - 1)

\* The value of a sequence of digits of radix r, the digits being valid.
RECURSIVE NumberValue(_, _, _)
NumberValue(s, r, acc) ==
  IF Len(s) = 0 THEN acc
  ELSE NumberValue(Tail(s), r, acc * r + HexValue(s[1]))

\* s without its leading "0" characters.
SignificantDigits(s) == SubSeq(s, FirstNotIn(s, {"0"}, 1), Len(s))

(* --------------------------- characters -------------------------------- *)
\* A character is a one-character string.  A character that a module cannot
\* hold, and any character above U+007F, can also be named by its code
\* point, "U+" and four to six upper-case hexadecimal digits.
HexUpper == AsciiDigit \o <<"A","B","C","D","E","F">>

RECURSIVE HexOf(_, _)
HexOf(n, width) ==
  IF n = 0 /\ width <= 0 THEN ""
  ELSE HexOf(n \div 16, width - 1) \o HexUpper[(n % 16) + 1]

CodePointName(cp) == "U+" \o HexOf(cp, 4)
Names(lo, hi) == {CodePointName(cp) : cp \in lo..hi}

\* The character of an ASCII code.
CharOfCode(code) ==
  IF code >= 32 /\ code <= 126 THEN AsciiPrintable[code - 31]
  ELSE CodePointName(code)

\* The characters of codes 01 to 1F, of code 7F and of codes 80 to FF, as a
\* module holds them (an environment value holds no U+0000).
RawC0 ==
  <<"", "", "", "", "", "", "", "", "\t", "\n", "", "\f", "\r", "", "",
    "", "", "", "", "", "", "", "", "", "", "", "", "", "", "", "">>
RawDelete == ""
RawLatin1 ==
  <<"", "", "", "", "", "", "", "", "", "", "", "", "", "", "", "",
    "", "", "", "", "", "", "", "", "", "", "", "", "", "", "", "",
    " ", "¡", "¢", "£", "¤", "¥", "¦", "§", "¨", "©", "ª", "«", "¬", "­", "®", "¯",
    "°", "±", "²", "³", "´", "µ", "¶", "·", "¸", "¹", "º", "»", "¼", "½", "¾", "¿",
    "À", "Á", "Â", "Ã", "Ä", "Å", "Æ", "Ç", "È", "É", "Ê", "Ë", "Ì", "Í", "Î", "Ï",
    "Ð", "Ñ", "Ò", "Ó", "Ô", "Õ", "Ö", "×", "Ø", "Ù", "Ú", "Û", "Ü", "Ý", "Þ", "ß",
    "à", "á", "â", "ã", "ä", "å", "æ", "ç", "è", "é", "ê", "ë", "ì", "í", "î", "ï",
    "ð", "ñ", "ò", "ó", "ô", "õ", "ö", "÷", "ø", "ù", "ú", "û", "ü", "ý", "þ", "ÿ">>

\* The name of a character given as itself.
Named(c) ==
  IF c \in Range(RawC0) THEN CodePointName(IndexOf(RawC0, c))
  ELSE IF c = RawDelete THEN "U+007F"
  ELSE IF c \in Range(RawLatin1) THEN CodePointName(IndexOf(RawLatin1, c) + 127)
  ELSE IF c = " " THEN "U+1680"
  ELSE IF c = "﻿" THEN "U+FEFF"
  ELSE c
NamedAll(s) == [i \in 1..Len(s) |-> Named(s[i])]

\* U+0000 to U+001F, and U+007F.
C0Control == Names(0, 31)
Delete == {"U+007F"}

\* C0 controls and space, which the parser strips from both ends, and the
\* tab and newline characters it removes everywhere.
C0ControlOrSpace == C0Control \cup {" "}
TabOrNewline == {"U+0009", "U+000A", "U+000D"}

UrlInput(x) ==
  LET y == NamedAll(x)
      from == FirstNotIn(y, C0ControlOrSpace, 1)
      to == LastNotIn(y, C0ControlOrSpace, Len(y))
  IN SelectSeq(SubSeq(y, from, to), LAMBDA c : c \notin TabOrNewline)

SpecialSchemes ==
  { <<"h","t","t","p">>, <<"h","t","t","p","s">>, <<"w","s">>,
    <<"w","s","s">>, <<"f","t","p">> }
FileScheme == <<"f","i","l","e">>

ForbiddenHostCodePoints ==
  {" ", "#", "/", ":", "<", ">", "?", "@", "[", "\\", "]", "^", "|",
   "U+0000", "U+0009", "U+000A", "U+000D"}
ForbiddenDomainCodePoints ==
  ForbiddenHostCodePoints \cup C0Control \cup Delete \cup {"%"}

(* ------------------------ percent-decoding ----------------------------- *)
\* The byte of the escape %XX at position i of s, -1 when there is none.
ByteAt(s, i) ==
  IF i + 2 <= Len(s) /\ s[i] = "%" /\ IsHex(s[i + 1]) /\ IsHex(s[i + 2])
  THEN 16 * HexValue(s[i + 1]) + HexValue(s[i + 2])
  ELSE -1

IsContinuation(b) == b >= 128 /\ b <= 191

\* The UTF-8 sequence of escapes that starts s: the character decoded and
\* the number of characters of s it takes.  A sequence that is not well
\* formed gives U+FFFD and takes its longest prefix that could start one.
Utf8At(s) ==
  LET b == ByteAt(s, 1)
      c1 == ByteAt(s, 4)
      c2 == ByteAt(s, 7)
      c3 == ByteAt(s, 10)
      bad(bytes) == [char |-> "U+FFFD", taken |-> 3 * bytes]
      second3 == /\ IsContinuation(c1)
                 /\ b = 224 => c1 >= 160
                 /\ b = 237 => c1 <= 159
      second4 == /\ IsContinuation(c1)
                 /\ b = 240 => c1 >= 144
                 /\ b = 244 => c1 <= 143
  IN IF b < 128 THEN [char |-> CharOfCode(b), taken |-> 3]
     ELSE IF b >= 194 /\ b <= 223
          THEN IF IsContinuation(c1)
               THEN [char |-> CodePointName((b - 192) * 64 + (c1 - 128)),
                     taken |-> 6]
               ELSE bad(1)
     ELSE IF b >= 224 /\ b <= 239
          THEN IF ~second3 THEN bad(1)
               ELSE IF ~IsContinuation(c2) THEN bad(2)
               ELSE [char |-> CodePointName((b - 224) * 4096 + (c1 - 128) * 64
                                              + (c2 - 128)),
                     taken |-> 9]
     ELSE IF b >= 240 /\ b <= 244
          THEN IF ~second4 THEN bad(1)
               ELSE IF ~IsContinuation(c2) THEN bad(2)
               ELSE IF ~IsContinuation(c3) THEN bad(3)
               ELSE [char |-> CodePointName((b - 240) * 262144
                                              + (c1 - 128) * 4096
                                              + (c2 - 128) * 64 + (c3 - 128)),
                     taken |-> 12]
     ELSE bad(1)

\* Percent-decoding of a host and UTF-8 decoding of the bytes it gives.
RECURSIVE PercentDecode(_)
PercentDecode(s) ==
  IF Len(s) = 0 THEN <<>>
  ELSE IF ByteAt(s, 1) >= 0
       THEN <<Utf8At(s).char>>
              \o PercentDecode(SubSeq(s, Utf8At(s).taken + 1, Len(s)))
       ELSE <<s[1]>> \o PercentDecode(Tail(s))

(* --------------------------- domain to ASCII --------------------------- *)
\* The characters of codes 00 to 7F.
Ascii == Range(AsciiPrintable) \cup C0Control \cup Delete

\* A percent-decoded domain whose processing rests on the Unicode tables of
\* the runtime: it holds a character above U+007F, or one of its labels
\* starts with "xn--" (Punycode).  The mapping, the normalisation and the
\* validity of such a domain are decided by the version of the tables the
\* runtime was built with, which is no part of the program; the host parser's
\* verdict on it is the variable toAscii.  Any other domain is only made
\* lower-case.
NeedsUnicodeTables(domain) ==
  \/ \E i \in 1..Len(domain) : domain[i] \notin Ascii
  \/ LET labels == SplitFrom(domain, ".", 1, <<>>)
     IN \E i \in 1..Len(labels) :
          /\ Len(labels[i]) >= 4
          /\ SubSeq(labels[i], 1, 4) = <<"x","n","-","-">>

(* ------------------------------ hosts ---------------------------------- *)
\* The IPv4 number parser: the radix and the digits of a part, radix 0 when
\* the part is not a number.
Ipv4Number(part) ==
  LET hex == Len(part) >= 2 /\ part[1] = "0" /\ ToLowerChar(part[2]) = "x"
      oct == ~hex /\ Len(part) >= 2 /\ part[1] = "0"
      digits == IF hex THEN SubSeq(part, 3, Len(part))
                ELSE IF oct THEN Tail(part) ELSE part
      radix == IF hex THEN 16 ELSE IF oct THEN 8 ELSE 10
  IN IF Len(part) = 0 THEN [radix |-> 0, digits |-> <<>>]
     ELSE IF \A i \in 1..Len(digits) :
               IsHex(digits[i]) /\ HexValue(digits[i]) < radix
          THEN [radix |-> radix, digits |-> SignificantDigits(digits)]
          ELSE [radix |-> 0, digits |-> <<>>]

\* The number is below 256^k, k in 1..4.
Ipv4Below(num, k) ==
  LET d == num.digits
      widest == IF num.radix = 16 THEN 2 * k
                ELSE IF num.radix = 8 THEN (8 * k + 2) \div 3
                ELSE IF k = 4 THEN 10 ELSE IF k = 3 THEN 8
                ELSE IF k = 2 THEN 5 ELSE 3
  IN IF Len(d) < widest THEN TRUE
     ELSE IF Len(d) > widest THEN FALSE
     ELSE IF num.radix = 16 THEN TRUE
     ELSE IF num.radix = 8
          THEN HexValue(d[1]) < (IF k = 3 THEN 8 ELSE IF k = 2 THEN 2 ELSE 4)
     ELSE IF k = 4
          THEN LET high == NumberValue(SubSeq(d, 1, 5), 10, 0)
                   low == NumberValue(SubSeq(d, 6, 10), 10, 0)
               IN high < 42949 \/ (high = 42949 /\ low <= 67295)
     ELSE NumberValue(d, 10, 0)
            < (IF k = 3 THEN 16777216 ELSE IF k = 2 THEN 65536 ELSE 256)

\* The parts of a host between its dots, a last empty part left out.
HostParts(host) ==
  LET parts == SplitFrom(host, ".", 1, <<>>)
  IN IF Len(parts) > 1 /\ parts[Len(parts)] = <<>>
     THEN SubSeq(parts, 1, Len(parts) - 1) ELSE parts

\* The ends-in-a-number checker.
EndsInNumber(host) ==
  LET parts == HostParts(host)
      last == parts[Len(parts)]
  IN /\ last # <<>>
     /\ \/ \A i \in 1..Len(last) : IsDigit(last[i])
        \/ Ipv4Number(last).radix # 0

\* The IPv4 parser does not fail.
Ipv4Ok(host) ==
  LET parts == HostParts(host)
      n == Len(parts)
  IN /\ n <= 4
     /\ \A i \in 1..n : Ipv4Number(parts[i]).radix # 0
     /\ \A i \in 1..(n - 1) : Ipv4Below(Ipv4Number(parts[i]), 1)
     /\ Ipv4Below(Ipv4Number(parts[n]), 5 - n)

\* The IPv4 address at the end of an IPv6 address: four decimal numbers up
\* to 255 without leading zeros.
Ipv4InIpv6Ok(s) ==
  LET parts == SplitFrom(s, ".", 1, <<>>)
  IN /\ Len(parts) = 4
     /\ \A i \in 1..4 :
          /\ Len(parts[i]) \in 1..3
          /\ \A j \in 1..Len(parts[i]) : IsDigit(parts[i][j])
          /\ Len(parts[i]) > 1 => parts[i][1] # "0"
          /\ NumberValue(parts[i], 10, 0) <= 255

\* The IPv6 parser from position i on, `pieces` pieces being read, a "::"
\* seen or not: it does not fail.
RECURSIVE Ipv6From(_, _, _, _)
Ipv6From(s, i, pieces, compress) ==
  IF i > Len(s) THEN compress \/ pieces = 8
  ELSE IF pieces = 8 THEN FALSE
  ELSE IF s[i] = ":" THEN ~compress /\ Ipv6From(s, i + 1, pieces + 1, TRUE)
  ELSE LET run == Min(FirstNotIn(s, HexChars, i), i + 4)
       IN IF run <= Len(s) /\ s[run] = "."
          THEN /\ run > i
               /\ pieces <= 6
               /\ Ipv4InIpv6Ok(SubSeq(s, i, Len(s)))
               /\ compress \/ pieces + 2 = 8
          ELSE IF run <= Len(s) /\ s[run] = ":"
               THEN run < Len(s) /\ Ipv6From(s, run + 1, pieces + 1, compress)
          ELSE IF run <= Len(s) THEN FALSE
          ELSE Ipv6From(s, run, pieces + 1, compress)

Ipv6Ok(s) ==
  IF Len(s) >= 1 /\ s[1] = ":"
  THEN Len(s) >= 2 /\ s[2] = ":" /\ Ipv6From(s, 3, 1, TRUE)
  ELSE Ipv6From(s, 1, 0, FALSE)

\* The host parser does not fail; `special` for a url of a special scheme,
\* `verdict` what the runtime's domain to ASCII and the checks on its result
\* give for a domain that needs the Unicode tables.
HostOk(host, special, verdict) ==
  IF Len(host) >= 1 /\ host[1] = "["
  THEN host[Len(host)] = "]" /\ Ipv6Ok(SubSeq(host, 2, Len(host) - 1))
  ELSE IF ~special
       THEN \A i \in 1..Len(host) :
              Named(host[i]) \notin ForbiddenHostCodePoints
       ELSE LET domain == ToLower(PercentDecode(NamedAll(host)))
            IN IF NeedsUnicodeTables(domain) THEN verdict
               ELSE /\ domain # <<>>
                    /\ \A i \in 1..Len(domain) :
                         domain[i] \notin ForbiddenDomainCodePoints
                    /\ EndsInNumber(domain) => Ipv4Ok(domain)

\* The port state: digits only, of a value up to 65535.
PortOk(port) ==
  /\ \A i \in 1..Len(port) : IsDigit(port[i])
  /\ LET d == SignificantDigits(port)
     IN Len(d) <= 5 /\ NumberValue(d, 10, 0) <= 65535

\* The first ":" of s outside square brackets, from i on; 0 when none.
RECURSIVE PortColon(_, _, _)
PortColon(s, i, inside) ==
  IF i > Len(s) THEN 0
  ELSE IF s[i] = ":" /\ ~inside THEN i
  ELSE PortColon(s, i + 1,
                 IF s[i] = "[" THEN TRUE ELSE IF s[i] = "]" THEN FALSE
                 ELSE inside)

\* The authority and host states on what follows the slashes.
AuthorityOk(rest, special, verdict) ==
  LET ends == IF special THEN {"/", "\\", "?", "#"} ELSE {"/", "?", "#"}
      authority == SubSeq(rest, 1, FirstIn(rest, ends, 1) - 1)
      at == LastIndexOf(authority, "@", Len(authority))
      hostport == SubSeq(authority, at + 1, Len(authority))
      colon == PortColon(hostport, 1, FALSE)
      host == IF colon = 0 THEN hostport ELSE SubSeq(hostport, 1, colon - 1)
      port == IF colon = 0 THEN <<>>
              ELSE SubSeq(hostport, colon + 1, Len(hostport))
  IN /\ at > 0 => hostport # <<>>
     /\ colon > 0 => host # <<>>
     /\ special => host # <<>>
     /\ HostOk(host, special, verdict)
     /\ PortOk(port)

\* A Windows drive letter: a letter, then ":" or "|".
IsDriveLetter(s) == Len(s) = 2 /\ IsAlpha(s[1]) /\ s[2] \in {":", "|"}

\* The file states: a host is parsed only after "//" (or "\\").
FileOk(rest, verdict) ==
  IF Len(rest) >= 2 /\ rest[1] \in {"/", "\\"} /\ rest[2] \in {"/", "\\"}
  THEN LET after == SubSeq(rest, 3, Len(rest))
           host == SubSeq(after, 1,
                          FirstIn(after, {"/", "\\", "?", "#"}, 1) - 1)
       IN IsDriveLetter(host) \/ host = <<>> \/ HostOk(host, TRUE, verdict)
  ELSE TRUE

\* new URL(x) returns (does not throw): x, without a base url, has a scheme
\* and, where its scheme asks for one, a valid host and port; `verdict` as
\* for HostOk.
UrlParses(x, verdict) ==
  LET s == UrlInput(x)
      colon == FirstIn(s, {":"}, 1)
      scheme == ToLower(SubSeq(s, 1, colon - 1))
      rest == SubSeq(s, colon + 1, Len(s))
  IN /\ colon <= Len(s)
     /\ colon >= 2
     /\ IsAlpha(s[1])
     /\ \A i \in 2..(colon - 1) :
          IsAlpha(s[i]) \/ IsDigit(s[i]) \/ s[i] \in {"+", "-", "."}
     /\ IF scheme = FileScheme THEN FileOk(rest, verdict)
        ELSE IF scheme \in SpecialSchemes
             THEN AuthorityOk(SubSeq(rest, FirstNotIn(rest, {"/", "\\"}, 1),
                                     Len(rest)), TRUE, verdict)
        ELSE IF Len(rest) >= 2 /\ rest[1] = "/" /\ rest[2] = "/"
             THEN AuthorityOk(SubSeq(rest, 3, Len(rest)), FALSE, verdict)
        ELSE TRUE

(* ------------------------------ the server ----------------------------- *)
TeamA == <<"t","e","a","m","A">>
TeamB == <<"t","e","a","m","B">>
GroupG == <<"g">>
TeamA_SvcA == TeamA \o <<"/","s","v","c","A">>
TeamB_Sub_X == TeamB \o <<"/","s","u","b","/","x">>
TeamB_Y == TeamB \o <<"/","y">>
OnlyName == <<"o","n","l","y","n","a","m","e">>

DigitChar(d) == <<"0","1","2","3","4","5","6","7","8","9">>[d + 1]

\* The i-th project of group g: g/p001, g/p002, ...
GProject(i) ==
  GroupG \o <<"/","p">>
    \o <<DigitChar(i \div 100), DigitChar((i \div 10) % 10), DigitChar(i % 10)>>

DigitValue(c) == CHOOSE d \in 0..9 : DigitChar(d) = c

NamedProjects == <<TeamA_SvcA, TeamB_Sub_X, TeamB_Y>>

\* The server's project ids, n projects in group g: the named projects, then
\* g/p001 .. g/p<n>.
ProjectIds(n) == 1..(Len(NamedProjects) + n)

PathOfId(i) ==
  IF i <= Len(NamedProjects) THEN NamedProjects[i]
  ELSE GProject(i - Len(NamedProjects))

\* The id of the project at `path`, 0 when the server has no such project.
IdOfPath(n, path) ==
  IF \E i \in 1..Len(NamedProjects) : NamedProjects[i] = path
  THEN CHOOSE i \in 1..Len(NamedProjects) : NamedProjects[i] = path
  ELSE IF /\ Len(path) = 6
          /\ SubSeq(path, 1, 3) = GroupG \o <<"/","p">>
          /\ \A j \in 4..6 : \E d \in 0..9 : DigitChar(d) = path[j]
       THEN LET i == 100 * DigitValue(path[4]) + 10 * DigitValue(path[5])
                       + DigitValue(path[6])
            IN IF i \in 1..n THEN Len(NamedProjects) + i ELSE 0
       ELSE 0

GroupExists(g) == g \in {TeamA, TeamB, GroupG}

\* GET /groups/:id/projects?include_subgroups=true, all of it, as
\* path_with_namespace values in the server's order.
Catalog(n, g) ==
  IF g = TeamA THEN <<TeamA_SvcA>>
  ELSE IF g = TeamB THEN <<TeamB_Sub_X, TeamB_Y>>
  ELSE IF g = GroupG THEN [i \in 1..n |-> GProject(i)]
  ELSE <<>>

\* Page `page` (from 1) of `list`, `size` items a page.
PageOf(list, page, size) ==
  SubSeq(list, (page - 1) * size + 1, Min(page * size, Len(list)))

VARIABLES
  impl,               \* "axios" (paginating client) or "gitlab" (library client)
  PAT, WEBHOOK_URL,   \* process.env.GITLAB_PAT, process.env.WEBHOOK_URL
  fileOk,             \* REPOS_FILE can be read
  toAscii,            \* the runtime's host parser accepts the domain of
                      \* WEBHOOK_URL, asked when it needs the Unicode tables
  content,            \* the text of REPOS_FILE
  gsize,              \* number of projects of group g on the server
  hooks, nextId,      \* server: webhooks of each project id, next hook id
  pc, exitCode,       \* program position; exit status (-1 while running)
  encodedWebhookUrl,
  lines, lineIdx,     \* processRepositories: the lines, how many were taken
  lineGroup,          \* groupPath of the current line
  inWildcard,         \* createWebhook was called from the inner loop
  page, allProjects,  \* getAllGroupRepositories
  repositories, repoIdx,
  ref,                \* createWebhook(groupPath, repoName)
  projectId, existingWebhook,
  request, reply,     \* the call awaited and the server's answer
  calls,              \* history: every request issued, with its outcome
  reconciled,         \* history: createWebhook calls that returned
  hooks0,             \* history: the server's webhooks before the run
  run                 \* 1 for the first run of the script, 2 for a re-run

env == <<impl, PAT, WEBHOOK_URL, fileOk, toAscii, content, gsize, hooks0,
        run>>
server == <<hooks, nextId>>
loopVars == <<lines, lineIdx, lineGroup, inWildcard, page, allProjects,
              repositories, repoIdx>>
cwVars == <<ref, projectId, existingWebhook>>
vars == <<env, server, pc, exitCode, encodedWebhookUrl, loopVars, cwVars,
          request, reply, calls, reconciled>>

NoHook == [id |-> 0, url |-> ""]
NoRef == [groupPath |-> <<>>, repoName |-> <<>>]
NoRequest == [op |-> "none", path |-> <<>>, pid |-> 0, arg |-> 0, url |-> ""]
NoReply == [status |-> "none", list |-> <<>>, id |-> 0]

(* ------------------------------ Init ----------------------------------- *)
\* Values of WEBHOOK_URL: a host label that is the Punycode of U+0080, a
\* control character, and one that is the Punycode of the ASCII label "a",
\* which domain to ASCII accepts or refuses with its version; a host with
\* percent-escaped UTF-8 (the letter U+00F6); a url after a control
\* character.
BadPunycode == <<"h","t","t","p",":","/","/","x","n","-","-","a">>
AsciiPunycode ==
  <<"h","t","t","p",":","/","/","x","n","-","-","a","-","/","i","n">>
PercentHost ==
  <<"h","t","t","p",":","/","/","%","C","3","%","B","6","/","i","n">>
ControlFirst == <<RawC0[1]>> \o DestChars

BlankLine == <<" ", "\f", "\t">>
LineUniverse == {TeamA_SvcA, TeamB \o <<"/","*">>, TeamB_Y, OnlyName, BlankLine}

RECURSIVE SeqsUpTo(_, _)
SeqsUpTo(S, n) ==
  IF n = 0 THEN {<<>>}
  ELSE LET shorter == SeqsUpTo(S, n - 1)
       IN shorter \cup {Append(q, x) : q \in {r \in shorter : Len(r) = n - 1}, x \in S}

\* The file's text: every line followed by a newline.
RECURSIVE FileText(_)
FileText(ls) ==
  IF Len(ls) = 0 THEN <<>> ELSE ls[1] \o <<NL>> \o FileText(Tail(ls))

\* The manifest teamA/svcA, teamB/*, and the same with a line of white space
\* and an empty line between the two.
ExampleManifest == FileText(<<TeamA_SvcA, TeamB \o <<"/","*">> >>)
ExampleWithBlanks ==
  FileText(<<TeamA_SvcA, BlankLine, <<>>, TeamB \o <<"/","*">> >>)

HookUrls == {Dest, DestUpper, DestSlash}

MkHooks(urls, base) == [i \in 1..Len(urls) |-> [id |-> base + i, url |-> urls[i]]]

\* Sizes of group g around the page boundaries, at most MaxPages requests.
PagingSizes ==
  {0, 1} \cup {k * perPage + d : k \in 1..(MaxPages - 1), d \in {-1, 0, 1}}

InitProgram ==
  /\ pc = "start" /\ exitCode = -1
  /\ encodedWebhookUrl = Undefined
  /\ lines = <<>> /\ lineIdx = 0 /\ lineGroup = <<>> /\ inWildcard = FALSE
  /\ page = 0 /\ allProjects = <<>> /\ repositories = <<>> /\ repoIdx = 0
  /\ ref = NoRef /\ projectId = 0 /\ existingWebhook = NoHook
  /\ request = NoRequest /\ reply = NoReply
  /\ calls = <<>> /\ reconciled = <<>>
  /\ run = 1

InitServer(n, urlsA, urlsY, urlsG) ==
  /\ gsize = n
  /\ hooks = [i \in ProjectIds(n) |->
                IF i = 1 THEN MkHooks(urlsA, 0)
                ELSE IF i = 3 THEN MkHooks(urlsY, Len(urlsA))
                ELSE IF i = 4 THEN MkHooks(urlsG, Len(urlsA) + Len(urlsY))
                ELSE <<>>]
  /\ nextId = Len(urlsA) + Len(urlsY) + Len(urlsG) + 1
  /\ hooks0 = hooks

\* Runs over the small groups, all manifests of up to MaxLines lines.
InitMain ==
  /\ impl \in {"axios", "gitlab"}
  /\ PAT = Env(Token) /\ WEBHOOK_URL = Env(DestChars) /\ fileOk = TRUE
  /\ toAscii = TRUE
  /\ \/ \E ls \in SeqsUpTo(LineUniverse, MaxLines) : content = FileText(ls)
     \/ content = ExampleWithBlanks
  /\ \E urlsY \in SeqsUpTo(HookUrls, MaxHooks) :
       InitServer(0, <<DestSlash>>, urlsY, <<>>)

\* Runs with any configuration, one manifest.  The host parser's verdict is
\* paired with the urls it is asked for: the tables accept the letter
\* U+00F6 and refuse U+0080, and accept or refuse the Punycode of an ASCII
\* label; for the other urls the verdict is not asked.
InitConfig ==
  /\ impl \in {"axios", "gitlab"}
  /\ PAT \in {Undefined, Env(<<>>), Env(UndefinedText), Env(Token)}
  /\ \/ /\ toAscii = TRUE
        /\ WEBHOOK_URL \in {Undefined, Env(<<>>), Env(UndefinedText),
                             Env(NoScheme), Env(PercentHost),
                             Env(AsciiPunycode), Env(ControlFirst),
                             Env(DestChars)}
     \/ /\ toAscii = FALSE
        /\ WEBHOOK_URL \in {Env(BadPunycode), Env(AsciiPunycode)}
  /\ fileOk \in BOOLEAN
  /\ content = FileText(<<TeamA_SvcA>>)
  /\ InitServer(0, <<DestSlash>>, <<>>, <<>>)

\* Runs over the large group g.
InitPaging ==
  /\ impl \in {"axios", "gitlab"}
  /\ PAT = Env(Token) /\ WEBHOOK_URL = Env(DestChars) /\ fileOk = TRUE
  /\ toAscii = TRUE
  /\ content = FileText(<<GroupG \o <<"/","*">> >>)
  /\ \E n \in PagingSizes :
       InitServer(n, <<DestSlash>>, <<>>, IF n > 0 THEN <<Dest>> ELSE <<>>)

Init == InitProgram /\ (InitMain \/ InitConfig \/ InitPaging)

(* --------------------------- program helpers --------------------------- *)
Request(op, path, pid, arg, url) ==
  [op |-> op, path |-> path, pid |-> pid, arg |-> arg, url |-> url]

\* The program issues `req` and suspends at its await.
Issue(req) ==
  /\ request' = req
  /\ reply' = NoReply
  /\ calls' = Append(calls, [op |-> req.op, path |-> req.path, pid |-> req.pid,
                             arg |-> req.arg, url |-> req.url,
                             result |-> "pending", list |-> <<>>])

\* process.exit(code), or the end of the script.
Exit(code) ==
  /\ pc' = "exited"
  /\ exitCode' = code
  /\ request' = NoRequest
  /\ reply' = NoReply

\* A catch that logs the error and lets the script end normally.
AbortExitZero ==
  /\ Exit(0)
  /\ UNCHANGED <<env, server, encodedWebhookUrl, loopVars, cwVars, calls,
                 reconciled>>

\* A catch that logs the error and goes on with the next entry.
AbortSkipAndContinue ==
  /\ pc' = "line"
  /\ request' = NoRequest
  /\ reply' = NoReply
  /\ UNCHANGED <<env, server, exitCode, encodedWebhookUrl, loopVars, cwVars,
                 calls, reconciled>>

\* A rejected await: the function's catch logs and rethrows, the catch of
\* processRepositories logs and calls process.exit(1).
Abort ==
  /\ Exit(1)
  /\ UNCHANGED <<env, server, encodedWebhookUrl, loopVars, cwVars, calls,
                 reconciled>>

\* What the server's url comparison would be with case folded.
FoldCase(u) == IF u = DestUpper THEN Dest ELSE u

\* A find that compares the urls without regard to case.
FindHookIgnoreCase(list, url) ==
  IF \E i \in 1..Len(list) : FoldCase(list[i].url) = FoldCase(url)
  THEN list[CHOOSE i \in 1..Len(list) :
              /\ FoldCase(list[i].url) = FoldCase(url)
              /\ \A j \in 1..(i - 1) : FoldCase(list[j].url) # FoldCase(url)]
  ELSE NoHook

\* A find whose predicate holds for every hook: the first hook of the list.
FindHookAnyUrl(list, url) ==
  IF Len(list) > 0 THEN list[1] ELSE NoHook

\* existingWebhooks.find(hook => hook.url === url), NoHook for undefined.
FindHook(list, url) ==
  IF \E i \in 1..Len(list) : list[i].url = url
  THEN list[CHOOSE i \in 1..Len(list) :
              /\ list[i].url = url
              /\ \A j \in 1..(i - 1) : list[j].url # url]
  ELSE NoHook

\* A map that keeps the line's group as the groupPath of every project.
ToRepositoriesLiteralGroup(projects) ==
  [i \in 1..Len(projects) |->
     [groupPath |-> lineGroup, repoName |-> ParsePath(projects[i]).repoName]]

\* projects.map(project => split path_with_namespace into groupPath, repoName)
ToRepositories(projects) == [i \in 1..Len(projects) |-> ParsePath(projects[i])]

\* A test that takes only an empty page for the last one.
IsLastPageWhenEmpty(projects) == Len(projects) = 0

\* projects.length < perPage: the page is the last one.
IsLastPage(projects) == Len(projects) < perPage

\* The hook calls address the project by id (axios) or by path (gitlab).
HookRequest(op, arg, url) ==
  IF impl = "axios" THEN Request(op, <<>>, projectId, arg, url)
  ELSE Request(op, ProjectPath(ref), 0, arg, url)

\* createWebhook(groupPath, repoName), up to its first await.
CallCreateWebhook(r, wild) ==
  /\ ref' = r
  /\ inWildcard' = wild
  /\ projectId' = 0
  /\ existingWebhook' = NoHook
  /\ IF impl = "axios"
     THEN /\ Issue(Request("getProject", ProjectPath(r), 0, 0, ""))
          /\ pc' = "await_project"
     ELSE /\ Issue(Request("listHooks", ProjectPath(r), 0, 0, ""))
          /\ pc' = "await_hooks"

(* --------------------------- program actions --------------------------- *)
\* A variant that does not try to parse the destination url.
ValidateConfigNoUrlCheck ==
  /\ pc = "start"
  /\ IF Falsy(PAT) \/ Falsy(WEBHOOK_URL)
     THEN /\ Exit(1)
          /\ UNCHANGED encodedWebhookUrl
     ELSE /\ encodedWebhookUrl' = WEBHOOK_URL
          /\ pc' = "read"
          /\ UNCHANGED <<exitCode, request, reply>>
  /\ UNCHANGED <<env, server, loopVars, cwVars, calls, reconciled>>

\* The checks at the top of the script.
ValidateConfig ==
  /\ pc = "start"
  /\ IF Falsy(PAT) \/ Falsy(WEBHOOK_URL) \/ ~UrlParses(WEBHOOK_URL.text, toAscii)
     THEN /\ Exit(1)
          /\ UNCHANGED encodedWebhookUrl
     ELSE /\ encodedWebhookUrl' = WEBHOOK_URL
          /\ pc' = "read"
          /\ UNCHANGED <<exitCode, request, reply>>
  /\ UNCHANGED <<env, server, loopVars, cwVars, calls, reconciled>>

\* processRepositories: read the file, keep the non-blank lines.
ReadManifest ==
  /\ pc = "read"
  /\ IF ~fileOk
     THEN /\ Exit(1)
          /\ UNCHANGED lines
     ELSE /\ lines' = ManifestLines(content)
          /\ pc' = "line"
          /\ UNCHANGED <<exitCode, request, reply>>
  /\ UNCHANGED <<env, server, encodedWebhookUrl, lineIdx, lineGroup,
                 inWildcard, page, allProjects, repositories, repoIdx,
                 cwVars, calls, reconciled>>

\* The head of `for (const line of lines)`: the end of the run, a wildcard
\* line (getAllGroupRepositories up to its first await) or a direct line.
NextLine ==
  /\ pc = "line"
  /\ IF lineIdx = Len(lines)
     THEN /\ Exit(0)
          /\ UNCHANGED <<lineIdx, lineGroup, inWildcard, page, allProjects,
                         cwVars, calls>>
     ELSE LET parsed == ParsePath(lines[lineIdx + 1])
          IN /\ lineIdx' = lineIdx + 1
             /\ lineGroup' = parsed.groupPath
             /\ UNCHANGED exitCode
             /\ IF parsed.repoName = Star
                THEN /\ page' = IF impl = "axios" THEN 1 ELSE 0
                     /\ allProjects' = <<>>
                     /\ Issue(Request("groupProjects", parsed.groupPath, 0,
                                      IF impl = "axios" THEN 1 ELSE 0, ""))
                     /\ pc' = "await_projects"
                     /\ UNCHANGED <<inWildcard, cwVars>>
                ELSE /\ CallCreateWebhook(parsed, FALSE)
                     /\ UNCHANGED <<page, allProjects>>
  /\ UNCHANGED <<env, server, encodedWebhookUrl, lines, repositories, repoIdx,
                 reconciled>>

\* getAllGroupRepositories after the await of a page of projects.
AfterGroupProjects ==
  /\ pc = "await_projects"
  /\ reply.status # "none"
  /\ IF reply.status = "error" THEN Abort
     ELSE /\ allProjects' = allProjects \o reply.list
          /\ IF impl = "gitlab" \/ IsLastPage(reply.list)
             THEN /\ repositories' = ToRepositories(allProjects')
                  /\ repoIdx' = 0
                  /\ pc' = "repo"
                  /\ request' = NoRequest
                  /\ reply' = NoReply
                  /\ UNCHANGED <<page, calls>>
             ELSE /\ page' = page + 1
                  /\ Issue(Request("groupProjects", lineGroup, 0, page + 1, ""))
                  /\ UNCHANGED <<pc, repositories, repoIdx>>
          /\ UNCHANGED <<env, server, exitCode, encodedWebhookUrl, lines,
                         lineIdx, lineGroup, inWildcard, cwVars, reconciled>>

\* A loop that takes the repositories from the last to the first.
NextRepoReversed ==
  /\ pc = "repo"
  /\ IF repoIdx = Len(repositories)
     THEN /\ pc' = "line"
          /\ UNCHANGED <<repoIdx, inWildcard, cwVars, request, reply, calls>>
     ELSE /\ repoIdx' = repoIdx + 1
          /\ CallCreateWebhook(repositories[Len(repositories) - repoIdx], TRUE)
  /\ UNCHANGED <<env, server, exitCode, encodedWebhookUrl, lines, lineIdx,
                 lineGroup, page, allProjects, repositories, reconciled>>

\* The head of `for (const repo of repositories)`.
NextRepo ==
  /\ pc = "repo"
  /\ IF repoIdx = Len(repositories)
     THEN /\ pc' = "line"
          /\ UNCHANGED <<repoIdx, inWildcard, cwVars, request, reply, calls>>
     ELSE /\ repoIdx' = repoIdx + 1
          /\ CallCreateWebhook(repositories[repoIdx + 1], TRUE)
  /\ UNCHANGED <<env, server, exitCode, encodedWebhookUrl, lines, lineIdx,
                 lineGroup, page, allProjects, repositories, reconciled>>

\* createWebhook after the await of getProjectId.
AfterGetProjectId ==
  /\ pc = "await_project"
  /\ reply.status # "none"
  /\ IF reply.status = "error" THEN Abort
     ELSE /\ projectId' = reply.id
          /\ Issue(Request("listHooks", <<>>, reply.id, 0, ""))
          /\ pc' = "await_hooks"
          /\ UNCHANGED <<env, server, exitCode, encodedWebhookUrl, loopVars,
                         ref, existingWebhook, reconciled>>

\* createWebhook after the await of the hook list: delete the matching
\* hook if there is one, else create.
AfterListHooks ==
  /\ pc = "await_hooks"
  /\ reply.status # "none"
  /\ IF reply.status = "error" THEN Abort
     ELSE LET found == FindHook(reply.list, Text(encodedWebhookUrl))
          IN /\ existingWebhook' = found
             /\ IF found # NoHook
                THEN /\ Issue(HookRequest("deleteHook", found.id, ""))
                     /\ pc' = "await_delete"
                ELSE /\ Issue(HookRequest("createHook", 0, Text(encodedWebhookUrl)))
                     /\ pc' = "await_create"
             /\ UNCHANGED <<env, server, exitCode, encodedWebhookUrl, loopVars,
                            ref, projectId, reconciled>>

\* A createWebhook that goes on to create although the delete failed.
AfterDeleteIgnoreError ==
  /\ pc = "await_delete"
  /\ reply.status # "none"
  /\ Issue(HookRequest("createHook", 0, Text(encodedWebhookUrl)))
  /\ pc' = "await_create"
  /\ UNCHANGED <<env, server, exitCode, encodedWebhookUrl, loopVars,
                 cwVars, reconciled>>

\* A createWebhook that returns after the delete without creating.
AfterDeleteSkipCreate ==
  /\ pc = "await_delete"
  /\ reply.status # "none"
  /\ IF reply.status = "error" THEN Abort
     ELSE /\ pc' = IF inWildcard THEN "repo" ELSE "line"
          /\ request' = NoRequest
          /\ reply' = NoReply
          /\ UNCHANGED <<env, server, exitCode, encodedWebhookUrl, loopVars,
                         cwVars, calls, reconciled>>

\* createWebhook after the await of the delete.
AfterDelete ==
  /\ pc = "await_delete"
  /\ reply.status # "none"
  /\ IF reply.status = "error" THEN Abort
     ELSE /\ Issue(HookRequest("createHook", 0, Text(encodedWebhookUrl)))
          /\ pc' = "await_create"
          /\ UNCHANGED <<env, server, exitCode, encodedWebhookUrl, loopVars,
                         cwVars, reconciled>>

\* A createWebhook that tries the create again when it failed.
AfterCreateRetry ==
  /\ pc = "await_create"
  /\ reply.status # "none"
  /\ IF reply.status = "error"
     THEN /\ Issue(HookRequest("createHook", 0, Text(encodedWebhookUrl)))
          /\ UNCHANGED <<env, server, pc, exitCode, encodedWebhookUrl,
                         loopVars, cwVars, reconciled>>
     ELSE /\ reconciled' = Append(reconciled,
                                  [path |-> ProjectPath(ref), hook |-> reply.id])
          /\ pc' = IF inWildcard THEN "repo" ELSE "line"
          /\ request' = NoRequest
          /\ reply' = NoReply
          /\ UNCHANGED <<env, server, exitCode, encodedWebhookUrl, loopVars,
                         cwVars, calls>>

\* createWebhook after the await of the create: return to the loop.
AfterCreate ==
  /\ pc = "await_create"
  /\ reply.status # "none"
  /\ IF reply.status = "error" THEN Abort
     ELSE /\ reconciled' = Append(reconciled,
                                  [path |-> ProjectPath(ref), hook |-> reply.id])
          /\ pc' = IF inWildcard THEN "repo" ELSE "line"
          /\ request' = NoRequest
          /\ reply' = NoReply
          /\ UNCHANGED <<env, server, exitCode, encodedWebhookUrl, loopVars,
                         cwVars, calls>>

(* --------------------------- server actions ---------------------------- *)
\* The project a request addresses: 0 when there is none.
Target(req) ==
  IF req.pid # 0 THEN (IF req.pid \in DOMAIN hooks THEN req.pid ELSE 0)
  ELSE IdOfPath(gsize, req.path)

Answer(status, list, id) ==
  /\ reply' = [status |-> status, list |-> list, id |-> id]
  /\ calls' = [calls EXCEPT ![Len(calls)].result = status,
                             ![Len(calls)].list = list]

Pending(op) == request.op = op /\ reply.status = "none"

ServerFrame == UNCHANGED <<env, pc, exitCode, encodedWebhookUrl, loopVars,
                           cwVars, request, reconciled>>

\* GET /projects/:path
ServerGetProject ==
  /\ Pending("getProject")
  /\ \E ok \in BOOLEAN :
       IF ok /\ Target(request) # 0
       THEN Answer("ok", <<>>, Target(request))
       ELSE Answer("error", <<>>, 0)
  /\ UNCHANGED server
  /\ ServerFrame

\* GET /groups/:id/projects: one page, or all of them for the library client.
ServerGroupProjects ==
  /\ Pending("groupProjects")
  /\ \E ok \in BOOLEAN :
       IF ok /\ GroupExists(request.path)
       THEN Answer("ok",
                   IF request.arg = 0 THEN Catalog(gsize, request.path)
                   ELSE PageOf(Catalog(gsize, request.path), request.arg, perPage),
                   0)
       ELSE Answer("error", <<>>, 0)
  /\ UNCHANGED server
  /\ ServerFrame

\* GET /projects/:id/hooks
ServerListHooks ==
  /\ Pending("listHooks")
  /\ \E ok \in BOOLEAN :
       IF ok /\ Target(request) # 0
       THEN Answer("ok", hooks[Target(request)], 0)
       ELSE Answer("error", <<>>, 0)
  /\ UNCHANGED server
  /\ ServerFrame

RECURSIVE WithoutId(_, _)
WithoutId(list, id) ==
  IF Len(list) = 0 THEN <<>>
  ELSE (IF list[1].id = id THEN <<>> ELSE <<list[1]>>) \o WithoutId(Tail(list), id)

\* DELETE /projects/:id/hooks/:hook_id
ServerDeleteHook ==
  /\ Pending("deleteHook")
  /\ \E ok \in BOOLEAN :
       LET t == Target(request)
       IN IF ok /\ t # 0 /\ (\E i \in 1..Len(hooks[t]) : hooks[t][i].id = request.arg)
          THEN /\ hooks' = [hooks EXCEPT ![t] = WithoutId(@, request.arg)]
               /\ Answer("ok", <<>>, 0)
          ELSE /\ UNCHANGED hooks
               /\ Answer("error", <<>>, 0)
  /\ UNCHANGED nextId
  /\ ServerFrame

\* POST /projects/:id/hooks
ServerCreateHook ==
  /\ Pending("createHook")
  /\ \E ok \in BOOLEAN :
       LET t == Target(request)
       IN IF ok /\ t # 0
          THEN /\ hooks' = [hooks EXCEPT ![t] =
                              Append(@, [id |-> nextId, url |-> request.url])]
               /\ nextId' = nextId + 1
               /\ Answer("ok", <<>>, nextId)
          ELSE /\ UNCHANGED server
               /\ Answer("error", <<>>, 0)
  /\ ServerFrame

Next ==
  \/ ValidateConfig
  \/ ReadManifest
  \/ NextLine
  \/ AfterGroupProjects
  \/ NextRepo
  \/ AfterGetProjectId
  \/ AfterListHooks
  \/ AfterDelete
  \/ AfterCreate
  \/ ServerGetProject
  \/ ServerGroupProjects
  \/ ServerListHooks
  \/ ServerDeleteHook
  \/ ServerCreateHook

Spec == Init /\ [][Next]_vars

(* ----------------------- kill and re-run ------------------------------- *)
\* The process is terminated from outside. A request already sent stays
\* with the server, which may still carry it out.
Kill ==
  /\ run = 1
  /\ pc \notin {"exited", "killed"}
  /\ pc' = "killed"
  /\ UNCHANGED <<env, server, exitCode, encodedWebhookUrl, loopVars, cwVars,
                 request, reply, calls, reconciled>>

\* The script is started again, with the same configuration and manifest,
\* after a run that was killed or that exited with status 1. A request of
\* the old process that the server has not carried out is lost.
Restart ==
  /\ run = 1
  /\ pc = "killed" \/ (pc = "exited" /\ exitCode = 1)
  /\ run' = 2
  /\ hooks0' = hooks
  /\ pc' = "start" /\ exitCode' = -1
  /\ encodedWebhookUrl' = Undefined
  /\ lines' = <<>> /\ lineIdx' = 0 /\ lineGroup' = <<>> /\ inWildcard' = FALSE
  /\ page' = 0 /\ allProjects' = <<>> /\ repositories' = <<>> /\ repoIdx' = 0
  /\ ref' = NoRef /\ projectId' = 0 /\ existingWebhook' = NoHook
  /\ request' = NoRequest /\ reply' = NoReply
  /\ calls' = <<>> /\ reconciled' = <<>>
  /\ UNCHANGED <<impl, PAT, WEBHOOK_URL, fileOk, toAscii, content, gsize,
               server>>

\* Manifests of the runs that may be killed: lines that name projects.
KillLineUniverse == {TeamA_SvcA, TeamB \o <<"/","*">>, TeamB_Y}

InitKill ==
  /\ InitProgram
  /\ impl \in {"axios", "gitlab"}
  /\ PAT = Env(Token) /\ WEBHOOK_URL = Env(DestChars) /\ fileOk = TRUE
  /\ toAscii = TRUE
  /\ \E ls \in SeqsUpTo(KillLineUniverse, MaxLines) : content = FileText(ls)
  /\ \E urlsY \in SeqsUpTo({Dest, DestUpper}, MaxHooks) :
       InitServer(0, <<DestSlash>>, urlsY, <<>>)

NextKill == Next \/ Kill \/ Restart

\* Runs that may be killed at any point, and a re-run after a killed or
\* failed run.
SpecKill == InitKill /\ [][NextKill]_vars

(* ------------------------- reading the history ------------------------- *)
\* The destination url of the run: the text of WEBHOOK_URL.
Destination == Text(WEBHOOK_URL)

\* The project path a call addresses.
PathOfCall(c) == IF c.pid # 0 THEN PathOfId(c.pid) ELSE c.path

\* The server's project id a call addresses, 0 when it addresses none.
ProjectOfCall(c) == IF c.pid # 0 THEN c.pid ELSE IdOfPath(gsize, c.path)

\* The positions of the hooks of `list` whose url is `url`.
Matching(list, url) == {i \in 1..Len(list) : list[i].url = url}

Calls(op) == {k \in 1..Len(calls) : calls[k].op = op}

\* The hook fetch of the createWebhook invocation that issued the create or
\* delete call k: the call before it, or the one before its delete.
FetchOf(k) == IF calls[k - 1].op = "listHooks" THEN k - 1 ELSE k - 2

LastCall == calls[Len(calls)]

(* -------------------------------- C1 ----------------------------------- *)
\* Two createWebhook invocations in succession for the same repository have
\* both returned and nothing was issued since.
TwiceInSuccession ==
  /\ Len(reconciled) >= 2
  /\ reconciled[Len(reconciled)].path = reconciled[Len(reconciled) - 1].path
  /\ pc # "await_create"
  /\ LastCall.op = "createHook" /\ LastCall.result = "ok"

\* C1 (as claimed): after createWebhook has run twice in succession on a
\* repository, whatever webhooks it had at first, exactly one webhook of the
\* repository has the destination url.
C1_IdempotentForEveryInitialHooks ==
  TwiceInSuccession =>
    Cardinality(Matching(hooks[ProjectOfCall(LastCall)], Destination)) = 1

(* -------------------------------- C2 ----------------------------------- *)
\* C2: when the fetched list holds a webhook with the destination url, the
\* call after the fetch is the delete of such a webhook's id; a create is
\* issued only two calls after that fetch, the delete between them having
\* succeeded; after a delete that is outstanding or failed nothing is issued.
C2_DeleteBeforeCreate ==
  \A k \in 1..Len(calls) :
    /\ ( /\ calls[k].op = "listHooks" /\ calls[k].result = "ok"
         /\ Matching(calls[k].list, Destination) # {}
         /\ k < Len(calls) )
       => /\ calls[k + 1].op = "deleteHook"
          /\ \E i \in Matching(calls[k].list, Destination) :
               calls[k + 1].arg = calls[k].list[i].id
          /\ ProjectOfCall(calls[k + 1]) = ProjectOfCall(calls[k])
    /\ ( /\ calls[k].op = "createHook"
         /\ Matching(calls[FetchOf(k)].list, Destination) # {} )
       => /\ k = FetchOf(k) + 2
          /\ calls[k - 1].op = "deleteHook"
          /\ calls[k - 1].result = "ok"
    /\ (calls[k].op = "deleteHook" /\ calls[k].result # "ok")
       => k = Len(calls)

\* A create was issued after the delete of a matching webhook succeeded,
\* and in another invocation a delete has failed.
C2_Witness ==
  /\ \E k \in Calls("createHook") :
       k > 1 /\ calls[k - 1].op = "deleteHook" /\ calls[k - 1].result = "ok"
  /\ LastCall.op = "deleteHook" /\ LastCall.result = "error"
  /\ pc = "exited"

(* -------------------------------- C3 ----------------------------------- *)
\* C3: when the fetched list holds no webhook whose url is exactly the
\* destination url, the program resumes by issuing the create: the call
\* after the fetch is a create for the same repository, no delete for it
\* follows, and the call after that create is no second create or delete.
C3_NoMatchNoDelete ==
  \A k \in 1..Len(calls) :
    ( /\ calls[k].op = "listHooks" /\ calls[k].result = "ok"
      /\ Matching(calls[k].list, Destination) = {} )
    => /\ k = Len(calls) => pc = "await_hooks"
       /\ k < Len(calls) =>
            /\ calls[k + 1].op = "createHook"
            /\ calls[k + 1].url = Destination
            /\ ProjectOfCall(calls[k + 1]) = ProjectOfCall(calls[k])
       /\ k + 1 < Len(calls) =>
            calls[k + 2].op \notin {"createHook", "deleteHook"}

\* A fetch returned only a webhook whose url differs from the destination
\* in case, and the create followed it.
C3_Witness ==
  \E k \in Calls("listHooks") :
    /\ calls[k].result = "ok"
    /\ Len(calls[k].list) > 0
    /\ \A i \in 1..Len(calls[k].list) : calls[k].list[i].url = DestUpper
    /\ k < Len(calls)
    /\ calls[k + 1].op = "createHook" /\ calls[k + 1].result = "ok"

(* -------------------------------- C4 ----------------------------------- *)
\* C4: a create that failed after a successful delete is the last call of
\* the run; the program is resuming from it or has exited with status 1;
\* and the repository holds the webhooks that were fetched, less the deleted
\* one: the deleted webhook is gone and no new one exists.
C4_CreateFailsAfterDelete ==
  \A k \in Calls("createHook") :
    (calls[k].result = "error" /\ k > 1 /\ calls[k - 1].op = "deleteHook")
    => /\ k = Len(calls)
       /\ pc \in {"await_create", "exited"}
       /\ pc = "exited" => exitCode = 1
       /\ LET t == ProjectOfCall(calls[k])
              fetched == calls[k - 2].list
              deleted == calls[k - 1].arg
          IN /\ \A i \in 1..Len(hooks[t]) : hooks[t][i].id # deleted
             /\ {hooks[t][i] : i \in 1..Len(hooks[t])}
                  = {fetched[i] : i \in 1..Len(fetched)}
                      \ {h \in {fetched[i] : i \in 1..Len(fetched)} : h.id = deleted}
             /\ Len(hooks[t]) = Len(fetched) - 1

\* The run has exited after a create failed that followed a successful
\* delete.
C4_Witness ==
  /\ pc = "exited"
  /\ Len(calls) > 1
  /\ LastCall.op = "createHook" /\ LastCall.result = "error"
  /\ calls[Len(calls) - 1].op = "deleteHook"
  /\ calls[Len(calls) - 1].result = "ok"

(* -------------------------------- C5 ----------------------------------- *)
\* The project holds a webhook with the destination url that this run made:
\* one it did not have before the run.
KeepsCreatedHook(path) ==
  LET t == IdOfPath(gsize, path)
  IN \E i \in 1..Len(hooks[t]) :
       /\ hooks[t][i].url = Destination
       /\ \A j \in 1..Len(hooks0[t]) : hooks0[t][j].id # hooks[t][i].id

\* The projects the run has reached: those reconciled, and the one a failed
\* createWebhook call addresses.
Reached(k) ==
  {IdOfPath(gsize, reconciled[i].path) : i \in 1..Len(reconciled)}
    \cup (IF calls[k].op = "groupProjects" THEN {} ELSE {ProjectOfCall(calls[k])})

\* C5 (as claimed): a failed call is the last call of the run; every
\* repository reconciled earlier holds a webhook this run created; every
\* project not reached has the webhooks it had before the run.
C5_FailFastAsClaimed ==
  \A k \in 1..Len(calls) :
    calls[k].result = "error"
    => /\ k = Len(calls)
       /\ \A i \in 1..Len(reconciled) : KeepsCreatedHook(reconciled[i].path)
       /\ LET reached == Reached(k)
          IN \A t \in DOMAIN hooks : t \notin reached => hooks[t] = hooks0[t]

\* Call k is a create that follows the delete of a webhook of project t.
CreateAfterDeleteOn(k, t) ==
  /\ calls[k].op = "createHook"
  /\ k > 1
  /\ calls[k - 1].op = "deleteHook"
  /\ ProjectOfCall(calls[k]) = t

\* C5 (amended): as above, but a repository reconciled earlier need not hold
\* a webhook this run created when it is being reconciled again and the
\* failed call is the create that follows the delete of its webhook.
C5_FailFast ==
  \A k \in 1..Len(calls) :
    calls[k].result = "error"
    => /\ k = Len(calls)
       /\ \A i \in 1..Len(reconciled) :
            ~CreateAfterDeleteOn(k, IdOfPath(gsize, reconciled[i].path))
            => KeepsCreatedHook(reconciled[i].path)
       /\ LET reached == Reached(k)
          IN \A t \in DOMAIN hooks : t \notin reached => hooks[t] = hooks0[t]

\* The run has exited on a failed hook call of one repository, after it
\* reconciled another, with a third project holding webhooks and not reached.
C5_Witness ==
  /\ pc = "exited" /\ exitCode = 1
  /\ Len(reconciled) >= 1
  /\ LastCall.result = "error"
  /\ LastCall.op = "deleteHook"
  /\ \A i \in 1..Len(reconciled) :
       IdOfPath(gsize, reconciled[i].path) # ProjectOfCall(LastCall)
  /\ \E t \in DOMAIN hooks : t \notin Reached(Len(calls)) /\ Len(hooks0[t]) > 0

(* -------------------------------- C6 ----------------------------------- *)
RECURSIVE Flatten(_)
Flatten(seqs) ==
  IF Len(seqs) = 0 THEN <<>> ELSE seqs[1] \o Flatten(Tail(seqs))

\* The project paths the lines ls stand for: of each line, the group's
\* projects when its last segment is "*", else the line's own path; and
\* those of the manifest's non-blank lines.
RepositoriesOf(ls) ==
  Flatten([i \in 1..Len(ls) |->
    IF ParsePath(ls[i]).repoName = Star
    THEN Catalog(gsize, ParsePath(ls[i]).groupPath)
    ELSE <<ProjectPath(ParsePath(ls[i]))>>])

ManifestRepositories == RepositoriesOf(ManifestLines(content))

\* The paths of the create calls that succeeded, in the order issued.
RECURSIVE CreatedFrom(_)
CreatedFrom(k) ==
  IF k > Len(calls) THEN <<>>
  ELSE (IF calls[k].op = "createHook" /\ calls[k].result = "ok"
        THEN <<PathOfCall(calls[k])>> ELSE <<>>) \o CreatedFrom(k + 1)

\* C6: the process ends with status 1 when a call has failed, when the
\* token or the destination url is missing, or when the manifest cannot be
\* read; it ends with status 0 only when the creates that succeeded are those
\* of the manifest's repositories, one for each.
C6_ExitStatus ==
  /\ (pc = "exited") = (exitCode \in {0, 1})
  /\ ( /\ pc = "exited"
       /\ \/ \E k \in 1..Len(calls) : calls[k].result = "error"
          \/ Falsy(PAT) \/ Falsy(WEBHOOK_URL) \/ ~fileOk )
     => exitCode = 1
  /\ exitCode = 0 => CreatedFrom(1) = ManifestRepositories

\* A run over a direct line and a wildcard line has ended with status 0.
C6_Witness ==
  /\ exitCode = 0
  /\ Len(ManifestLines(content)) = 2
  /\ Len(ManifestRepositories) = 3

(* -------------------------------- C7 ----------------------------------- *)
HasSlash(s) == \E i \in 1..Len(s) : s[i] = "/"

\* C7: taking a line that does not end in "*", the program calls
\* createWebhook once, outside any expansion, with a repoName free of "/"
\* and groupPath + "/" + repoName equal to the line, or, for a line without
\* "/", groupPath empty and repoName the line; the call it issues is the
\* first of createWebhook for that path, not a group-projects query.
C7_DirectLine ==
  [][ ( /\ pc = "line"
        /\ lineIdx < Len(lines)
        /\ lines[lineIdx + 1][Len(lines[lineIdx + 1])] # "*" )
      => LET l == lines[lineIdx + 1]
         IN /\ lineIdx' = lineIdx + 1
            /\ ~inWildcard'
            /\ ~HasSlash(ref'.repoName)
            /\ IF HasSlash(l)
               THEN ref'.groupPath \o <<"/">> \o ref'.repoName = l
               ELSE ref'.groupPath = <<>> /\ ref'.repoName = l
            /\ Len(calls') = Len(calls) + 1
            /\ calls'[Len(calls')].op
                 = (IF impl = "axios" THEN "getProject" ELSE "listHooks")
            /\ calls'[Len(calls')].path
                 = (IF HasSlash(l) THEN l ELSE <<"/">> \o l)
            /\ repositories' = repositories
    ]_vars

\* The line without "/" was passed to createWebhook and the server was
\* asked for the path "/onlyname".
C7_Witness ==
  /\ pc \in {"await_project", "await_hooks"}
  /\ ~inWildcard
  /\ ref = [groupPath |-> <<>>, repoName |-> OnlyName]
  /\ LastCall.path = <<"/">> \o OnlyName

(* -------------------------------- C8 ----------------------------------- *)
\* The projects returned by the group-projects calls of one expansion, the
\* last of which is call k.
RECURSIVE PagesEndingAt(_)
PagesEndingAt(k) ==
  IF k >= 1 /\ calls[k].op = "groupProjects"
  THEN (IF calls[k].arg > 1 THEN PagesEndingAt(k - 1) ELSE <<>>) \o calls[k].list
  ELSE <<>>

\* Call k asks for page 1 of a group, or for the page after the one asked
\* for last, that one having come back full.
AsksNextPage(k) ==
  \/ calls[k].arg = 1
  \/ /\ k > 1
     /\ calls[k - 1].op = "groupProjects"
     /\ calls[k - 1].path = calls[k].path
     /\ calls[k - 1].arg = calls[k].arg - 1
     /\ calls[k - 1].result = "ok"
     /\ Len(calls[k - 1].list) = perPage

\* Resuming from a page, the client asks for the next page of the same group
\* when the page is full, and for nothing more when it is short: the
\* expansion then returns.
PagesOn ==
  IF Len(reply.list) < perPage
  THEN calls' = calls /\ pc' = "repo" /\ repoIdx' = 0
  ELSE /\ Len(calls') = Len(calls) + 1
       /\ calls'[Len(calls')].op = "groupProjects"
       /\ calls'[Len(calls')].path = LastCall.path
       /\ calls'[Len(calls')].arg = LastCall.arg + 1
       /\ pc' = "await_projects"

\* When the expansion has returned, its result has one entry for every
\* project of every page.
ResultHasEveryPage ==
  (pc = "repo" /\ repoIdx = 0) =>
    /\ LastCall.op = "groupProjects"
    /\ Len(repositories) = Len(PagesEndingAt(Len(calls)))

\* C8 as claimed: getAllGroupRepositories, in the one implementation as in
\* the other, requests pages 1, 2, 3, ... of the group and goes on to the
\* next page until a page comes back with fewer items than the page size; it
\* then stops, issues no further page query, and returns every project of
\* every page it requested.
C8_PaginationAsClaimed ==
  /\ [](/\ \A k \in Calls("groupProjects") : AsksNextPage(k)
        /\ ResultHasEveryPage)
  /\ [][(pc = "await_projects" /\ reply.status = "ok") => PagesOn]_vars

\* The implementation with the HTTP client pages as claimed; the one with
\* the gitlab library issues one Groups.projects call, without a page
\* number, for a wildcard line, and none before another line is taken.
C8_Pages ==
  /\ \A k \in Calls("groupProjects") :
       IF impl = "axios" THEN AsksNextPage(k)
       ELSE /\ calls[k].arg = 0
            /\ k > 1 => calls[k - 1].op # "groupProjects"
  /\ ResultHasEveryPage

\* Resuming from a page the HTTP client goes on as claimed; resuming from
\* its one call the library client issues no further query and returns.
C8_Resume ==
  (pc = "await_projects" /\ reply.status = "ok")
  => IF impl = "axios" THEN PagesOn
     ELSE calls' = calls /\ pc' = "repo" /\ repoIdx' = 0

\* C8 (amended): for a wildcard line, getAllGroupRepositories of the
\* implementation with the HTTP client (part_000) requests pages 1, 2,
\* 3, ... of the group (page size 100) and goes on to the next page until a
\* page comes back with fewer items than the page size; it then stops and
\* issues no further page query.  That of the implementation with the gitlab
\* library (create-webhooks.ts) issues a single Groups.projects call for the
\* group, the paging being the library's, and no further query when it has
\* returned.  In both, every project returned is in the result.
C8_Pagination == []C8_Pages /\ [][C8_Resume]_vars

\* An expansion has returned after a full first page and a short second one.
C8_Witness ==
  /\ impl = "axios"
  /\ pc = "repo" /\ repoIdx = 0
  /\ LastCall.arg = 2
  /\ Len(LastCall.list) < perPage
  /\ Len(repositories) >= perPage

(* -------------------------------- C9 ----------------------------------- *)
\* C9: the expansion's result has one entry for each project the server
\* returned, in the server's order, and the entry's groupPath + "/" +
\* repoName is that project's path_with_namespace, the repoName being its
\* last segment.
C9_RefsFromProjectPaths ==
  (pc = "repo" /\ repoIdx = 0)
  => LET returned == PagesEndingAt(Len(calls))
     IN /\ Len(repositories) = Len(returned)
        /\ \A i \in 1..Len(returned) :
             /\ repositories[i].groupPath \o <<"/">> \o repositories[i].repoName
                  = returned[i]
             /\ ~HasSlash(repositories[i].repoName)

\* The expansion of teamB/* has returned a project of a subgroup, with a
\* groupPath that is not the line's.
C9_Witness ==
  /\ pc = "repo" /\ repoIdx = 0
  /\ lineGroup = TeamB
  /\ Len(repositories) = 2
  /\ repositories[1] = [groupPath |-> TeamB \o <<"/","s","u","b">>,
                        repoName |-> <<"x">>]

(* -------------------------------- C10 ---------------------------------- *)
\* The paths of the create calls issued, in the order issued.
RECURSIVE CreatesIssuedFrom(_)
CreatesIssuedFrom(k) ==
  IF k > Len(calls) THEN <<>>
  ELSE (IF calls[k].op = "createHook" THEN <<PathOfCall(calls[k])>> ELSE <<>>)
       \o CreatesIssuedFrom(k + 1)

\* The lines of the manifest that are not blank: those that hold a character
\* other than white space; and the project paths they stand for, in order.
NonBlankLines ==
  SelectSeq(Split(content, NL),
            LAMBDA l : \E i \in 1..Len(l) : l[i] \notin Whitespace)
ExpectedRepositories == RepositoriesOf(NonBlankLines)

\* The groups of the non-blank lines that end in "/*".
ExpectedGroups ==
  {ParsePath(NonBlankLines[i]).groupPath :
     i \in {j \in 1..Len(NonBlankLines) :
              ParsePath(NonBlankLines[j]).repoName = Star}}

\* C10: the creates are issued in the order of the manifest's non-blank
\* lines and, within a wildcard line, in the order the server returned the
\* projects: a create that is the last call issued, the n-th create of the
\* run, is for the n-th repository of the non-blank lines, and a run that
\* ends with status 0 has issued one create for each of them, in order.
\* Blank lines produce no operation: every call issued, of any kind, is for
\* the group or for a repository of a non-blank line.  For the manifest
\* teamA/svcA, teamB/* with no webhook of the destination url on the server,
\* a successful run issues exactly three creates, for teamA/svcA,
\* teamB/sub/x, teamB/y in this order, and no delete.
C10_Order ==
  /\ (calls # <<>> /\ LastCall.op = "createHook") =>
       LET n == Cardinality(Calls("createHook"))
       IN /\ n <= Len(ExpectedRepositories)
          /\ PathOfCall(LastCall) = ExpectedRepositories[n]
  /\ calls # <<>> =>
       IF LastCall.op = "groupProjects"
       THEN LastCall.path \in ExpectedGroups
       ELSE PathOfCall(LastCall) \in Range(ExpectedRepositories)
  /\ exitCode = 0 => CreatesIssuedFrom(1) = ExpectedRepositories
  /\ ( /\ exitCode = 0
       /\ content = ExampleManifest
       /\ \A t \in DOMAIN hooks0 : Matching(hooks0[t], Destination) = {} )
     => /\ CreatesIssuedFrom(1) = <<TeamA_SvcA, TeamB_Sub_X, TeamB_Y>>
        /\ Calls("deleteHook") = {}

\* The run over teamA/svcA, a line of white space, an empty line and
\* teamB/* has ended with status 0 on a server where teamB/y had only a
\* webhook of another url: three creates in the manifest's order, no delete,
\* and no call for the blank lines.
C10_Witness ==
  /\ content = ExampleWithBlanks
  /\ exitCode = 0
  /\ Len(hooks0[3]) > 0
  /\ \A t \in DOMAIN hooks0 : Matching(hooks0[t], Dest) = {}
  /\ CreatesIssuedFrom(1) = <<TeamA_SvcA, TeamB_Sub_X, TeamB_Y>>
  /\ Calls("deleteHook") = {}
  /\ Len(calls) = IF impl = "axios" THEN 10 ELSE 7

(* ------------------------------- C11 ----------------------------------- *)
\* The run ends now, with status 1, no call having been issued.
EndsBeforeNetwork ==
  /\ pc' = "exited" /\ exitCode' = 1
  /\ calls' = <<>> /\ request' = NoRequest

\* No call is issued before the configuration is validated and the manifest
\* read.
C11_NoCallYet ==
  pc \in {"start", "read"} => calls = <<>> /\ request = NoRequest

\* The step from the start of a run without a token, without a destination
\* url or with one that does not parse, and the step that fails to read the
\* manifest, end the run with status 1.
C11_Step ==
  /\ ( /\ pc = "start"
       /\ \/ Falsy(PAT)
          \/ Falsy(WEBHOOK_URL)
          \/ ~UrlParses(WEBHOOK_URL.text, toAscii) )
     => EndsBeforeNetwork
  /\ (pc = "read" /\ ~fileOk) => EndsBeforeNetwork

\* C11: a configuration error (no access token, no destination url, a
\* destination url that does not parse as an absolute url, a manifest that
\* cannot be read) is fatal and found before any network activity: no call
\* is issued before these checks, and the step that makes the failing check
\* ends the run with exit status 1 and no call issued.
C11_ConfigErrorBeforeNetwork == []C11_NoCallYet /\ [][C11_Step]_vars

\* A run with a token and a well-formed destination url has ended on a
\* manifest that could not be read, the last of the four checks.
C11_Witness ==
  /\ ~fileOk
  /\ pc = "exited" /\ exitCode = 1
  /\ calls = <<>>
  /\ encodedWebhookUrl = WEBHOOK_URL
  /\ ~Falsy(PAT) /\ UrlParses(WEBHOOK_URL.text, toAscii)

(* ------------------------------- C12 ----------------------------------- *)
\* The ids of the webhooks of `list`.
HookIds(list) == {list[i].id : i \in 1..Len(list)}

\* C12 (as claimed): once a createWebhook invocation has succeeded, none of
\* the webhooks with the destination url that the repository held before the
\* invocation (those of the list it fetched) is still on the repository,
\* however many there were.
C12_NoPriorMatchLeft ==
  \A k \in Calls("createHook") :
    calls[k].result = "ok" =>
      LET before == calls[FetchOf(k)].list
      IN \A i \in Matching(before, Destination) :
           before[i].id \notin HookIds(hooks[ProjectOfCall(calls[k])])

(* ------------------------------- C13 ----------------------------------- *)
\* The projects whose matching webhook the run has deleted without a create
\* having succeeded on them since.
Transient ==
  {t \in DOMAIN hooks :
     \E k \in Calls("deleteHook") :
       /\ calls[k].result = "ok"
       /\ ProjectOfCall(calls[k]) = t
       /\ \A j \in (k + 1)..Len(calls) :
            ~(calls[j].op = "createHook" /\ calls[j].result = "ok")}

\* The projects a webhook call of the run addresses.
Touched ==
  {ProjectOfCall(calls[k]) :
     k \in {j \in 1..Len(calls) :
              calls[j].op \in {"listHooks", "deleteHook", "createHook"}}}

\* Call k is the first call for a repository or for a wildcard line.
StartsNext(k) ==
  \/ calls[k].op = "groupProjects" /\ calls[k].arg <= 1
  \/ calls[k].op = (IF impl = "axios" THEN "getProject" ELSE "listHooks")

\* Calls are issued one at a time, each after the one before has succeeded,
\* and the first call for the next repository or wildcard line only after
\* the create of the repository before it has returned (or after the
\* expansion of a wildcard line).
OneAtATime ==
  \A k \in 2..Len(calls) :
    /\ calls[k - 1].result = "ok"
    /\ StartsNext(k) => calls[k - 1].op \in {"createHook", "groupProjects"}

\* C13 (as claimed): in every state, a killed run's included, at most one
\* repository has its matching webhook deleted and no replacement yet, every
\* repository processed before holds the webhook the run created on it, and
\* every repository not reached is untouched.
C13_SequentialAsClaimed ==
  /\ OneAtATime
  /\ Cardinality(Transient) <= 1
  /\ \A i \in 1..Len(reconciled) : KeepsCreatedHook(reconciled[i].path)
  /\ \A t \in DOMAIN hooks : t \notin Touched => hooks[t] = hooks0[t]

\* C13: reconciliation is strictly sequential. In every state, a killed
\* run's included: calls are issued one at a time and the next repository or
\* wildcard line is begun only when the create before it has returned; at
\* most one repository has its matching webhook deleted and no replacement
\* yet, and it is the one the last call addresses; every repository
\* processed before, unless it is that very repository listed again, holds
\* the webhook the run created on it; every repository not reached has the
\* webhooks it had before the run.
C13_Sequential ==
  /\ OneAtATime
  /\ Cardinality(Transient) <= 1
  /\ \A t \in Transient : t = ProjectOfCall(LastCall)
  /\ \A i \in 1..Len(reconciled) :
       IdOfPath(gsize, reconciled[i].path) \notin Transient
         => KeepsCreatedHook(reconciled[i].path)
  /\ \A t \in DOMAIN hooks : t \notin Touched => hooks[t] = hooks0[t]

\* A run was killed between the delete and the create of teamB/y, after
\* another repository had been reconciled, a third one not being reached.
C13_Witness ==
  /\ pc = "killed"
  /\ calls # <<>>
  /\ LastCall.op = "deleteHook" /\ LastCall.result = "ok"
  /\ Transient = {3}
  /\ \E i \in 1..Len(reconciled) :
       /\ IdOfPath(gsize, reconciled[i].path) # 3
       /\ KeepsCreatedHook(reconciled[i].path)
  /\ \E t \in DOMAIN hooks : t \notin Touched

(* ------------------------------- C14 ----------------------------------- *)
\* A re-run, after a run that was killed or that failed, has ended with
\* every call having succeeded.
RerunComplete == run = 2 /\ pc = "exited" /\ exitCode = 0

\* C14 (as claimed): after a run that was killed or aborted at any point,
\* between a delete and its create included, a complete re-run over the same
\* manifest and destination url in which every call succeeds leaves every
\* repository of the manifest with exactly one webhook with the destination
\* url.
C14_RerunRecovers ==
  RerunComplete =>
    \A i \in 1..Len(ManifestRepositories) :
      Cardinality(Matching(hooks[IdOfPath(gsize, ManifestRepositories[i])],
                           Destination)) = 1

(* ------------------------------- C15 ----------------------------------- *)
\* The number of times `path` occurs in `paths`.
Occurrences(paths, path) ==
  Cardinality({i \in 1..Len(paths) : paths[i] = path})

\* C15 (as claimed): lines are not deduplicated. When a run has ended with
\* status 0, a repository that the manifest's lines resolve to more than once
\* was reconciled once for each occurrence, and it holds what one
\* reconciliation leaves: one webhook with the destination url.
C15_RepeatedRepository ==
  exitCode = 0 =>
    \A i \in 1..Len(ManifestRepositories) :
      LET path == ManifestRepositories[i]
      IN Occurrences(ManifestRepositories, path) >= 2 =>
           /\ Occurrences(CreatedFrom(1), path)
                = Occurrences(ManifestRepositories, path)
           /\ Cardinality(Matching(hooks[IdOfPath(gsize, path)], Destination)) = 1

(* ------------------------------- C16 ----------------------------------- *)
\* Call k is the first call of a createWebhook invocation.
InvocationStart(k) ==
  calls[k].op = (IF impl = "axios" THEN "getProject" ELSE "listHooks")

\* The first call of the invocation that issued the delete or create call k.
StartOf(k) == IF impl = "axios" THEN FetchOf(k) - 1 ELSE FetchOf(k)

\* The hooks of `list` whose url is not `url`, in their order.
OtherUrls(list, url) == SelectSeq(list, LAMBDA h : h.url # url)

\* The calls of createWebhook: the project's lookup and fetch, then a delete
\* only of a fetched webhook with the destination url, then a create with
\* the destination url, all for the invocation's repository; a delete or a
\* create is the only one since the first call of its invocation.
C16_Calls ==
  /\ \A k \in 1..Len(calls) :
       /\ (calls[k].op = "listHooks" /\ impl = "axios") =>
            /\ k >= 2
            /\ calls[k - 1].op = "getProject" /\ calls[k - 1].result = "ok"
            /\ ProjectOfCall(calls[k]) = ProjectOfCall(calls[k - 1])
       /\ calls[k].op = "deleteHook" =>
            /\ k >= 2
            /\ calls[k - 1].op = "listHooks"
            /\ ProjectOfCall(calls[k]) = ProjectOfCall(calls[k - 1])
            /\ \E i \in Matching(calls[k - 1].list, Destination) :
                 calls[k - 1].list[i].id = calls[k].arg
       /\ calls[k].op = "createHook" =>
            /\ k >= 2
            /\ calls[k - 1].op \in {"listHooks", "deleteHook"}
            /\ ProjectOfCall(calls[k]) = ProjectOfCall(calls[k - 1])
            /\ calls[k].url = Destination
  /\ \A k \in Calls("deleteHook") \cup Calls("createHook") :
       /\ InvocationStart(StartOf(k))
       /\ \A m \in StartOf(k)..(k - 1) : calls[m].op # calls[k].op
  /\ ( /\ calls # <<>>
       /\ LastCall.op \in {"getProject", "listHooks", "deleteHook", "createHook"} )
     => ProjectOfCall(LastCall) = IdOfPath(gsize, ProjectPath(ref))

\* A step changes the webhooks of the invocation's repository only, and of
\* these it keeps every webhook with another url, in place.
C16_Step ==
  \A t \in DOMAIN hooks :
    hooks'[t] # hooks[t] =>
      /\ t = IdOfPath(gsize, ProjectPath(ref))
      /\ OtherUrls(hooks'[t], Destination) = OtherUrls(hooks[t], Destination)

\* C16: one createWebhook invocation for a repository issues at most one
\* delete and at most one create, both for that repository; it deletes only
\* a webhook with the destination url and leaves the repository's webhooks
\* with other urls as they are; it neither reads nor deletes nor creates
\* webhooks of another repository; this whether it succeeds or fails.
C16_Frame == []C16_Calls /\ [][C16_Step]_vars

\* createWebhook has succeeded on teamB/y, which held a webhook with another
\* url before one with the destination url: the latter was deleted, the
\* former is still there, and teamA/svcA's webhook is as before.
C16_Witness ==
  /\ Len(calls) >= 3
  /\ LastCall.op = "createHook" /\ LastCall.result = "ok"
  /\ calls[Len(calls) - 1].op = "deleteHook"
  /\ ProjectOfCall(LastCall) = 3
  /\ Len(hooks0[3]) = 2
  /\ hooks0[3][1].url = DestUpper /\ hooks0[3][2].url = Dest
  /\ hooks[3][1] = hooks0[3][1]
  /\ hooks[1] = hooks0[1]
====
